---- MODULE Spec2Model ----
(***************************************************************************)
(* Squeal's destructor-constant bridge: the two headers src/Squeal/Squeal.h *)
(* and src/Squeal-iOS/Squeal.h define, at file scope,                       *)
(*                                                                         *)
(*   typedef void (*squeal_destructor_type)(void*);                        *)
(*   const squeal_destructor_type SQUEAL_STATIC    = ((squeal_destructor_type)0);  *)
(*   const squeal_destructor_type SQUEAL_TRANSIENT = ((squeal_destructor_type)-1); *)
(*                                                                         *)
(* A pointer value is modelled by its bit pattern: a sequence of width     *)
(* bits, least significant bit first.  (TLC's integers are 32 bits wide,   *)
(* so a 64-bit pattern cannot be a TLC number; the unsigned reading of a   *)
(* pattern is computed only for widths below 31.)                          *)
(***************************************************************************)
EXTENDS Integers, Sequences, FiniteSets, TLC

VARIABLES
    width,      \* pointer width, in bits, of the target platform
    header,     \* the header the program is built against
    lang,       \* the language the including translation units are compiled as
    phase,      \* "compile", "run" or "linkerror"
    units,      \* number of translation units compiled so far (each includes the header)
    symtab,     \* the definitions the compiled units emitted
    mem,        \* the process image: mem[u][s] is the object unit u's code names s
    start,      \* mem as it was at program start
    reg,        \* reg[t]: the last load thread t made of a constant, or NoLoad
    bufs,       \* the caller's buffers
    binding,    \* the engine's parameter slot
    called,     \* destructor addresses the engine has invoked
    released    \* buffers the engine has passed to a destructor

vars == <<width, header, lang, phase, units, symtab, mem, start, reg,
          bufs, binding, called, released>>

bridgeVars == <<lang, phase, units, symtab, mem, start, reg>>
engineVars == <<bufs, binding, called, released>>

(***************************************************************************)
(* Bounds of the model.                                                    *)
(***************************************************************************)
MaxWidth == 64
MaxUnits == 2
MaxThreads == 2

Widths == 1..MaxWidth
Threads == 1..MaxThreads
Headers == {"Squeal", "Squeal-iOS"}
Langs == {"objc", "objcxx"}
Syms == {"SQUEAL_STATIC", "SQUEAL_TRANSIENT"}
NoLoad == [unit |-> 0, sym |-> "none", val |-> <<>>]

(***************************************************************************)
(* The two headers, declaration by declaration.  `init` is the integer     *)
(* constant expression each initializer casts; `const` and `storage` are   *)
(* the declaration's qualifier and storage-class specifier.                *)
(***************************************************************************)
squeal_destructor_type ==
    [ret |-> "void", params |-> <<"void*">>]

squeal_destructor_type_iOS ==
    [ret |-> "void", params |-> <<"void*">>]

Squeal_h_StaticOne ==
    [typedef |-> squeal_destructor_type,
     SQUEAL_STATIC    |-> [const |-> TRUE, storage |-> "none", init |-> 1],
     SQUEAL_TRANSIENT |-> [const |-> TRUE, storage |-> "none", init |-> -1]]

Squeal_h_TransientZero ==
    [typedef |-> squeal_destructor_type,
     SQUEAL_STATIC    |-> [const |-> TRUE, storage |-> "none", init |-> 0],
     SQUEAL_TRANSIENT |-> [const |-> TRUE, storage |-> "none", init |-> 0]]

Squeal_h ==
    [typedef |-> squeal_destructor_type,
     SQUEAL_STATIC    |-> [const |-> TRUE, storage |-> "none", init |-> 0],
     SQUEAL_TRANSIENT |-> [const |-> TRUE, storage |-> "none", init |-> -1]]

Squeal_iOS_h_NotConst ==
    [typedef |-> squeal_destructor_type_iOS,
     SQUEAL_STATIC    |-> [const |-> FALSE, storage |-> "none", init |-> 0],
     SQUEAL_TRANSIENT |-> [const |-> FALSE, storage |-> "none", init |-> -1]]

Squeal_iOS_h_TransientOne ==
    [typedef |-> squeal_destructor_type_iOS,
     SQUEAL_STATIC    |-> [const |-> TRUE, storage |-> "none", init |-> 0],
     SQUEAL_TRANSIENT |-> [const |-> TRUE, storage |-> "none", init |-> 1]]

Squeal_iOS_h_Swapped ==
    [typedef |-> squeal_destructor_type_iOS,
     SQUEAL_STATIC    |-> [const |-> TRUE, storage |-> "none", init |-> -1],
     SQUEAL_TRANSIENT |-> [const |-> TRUE, storage |-> "none", init |-> 0]]

Squeal_iOS_h ==
    [typedef |-> squeal_destructor_type_iOS,
     SQUEAL_STATIC    |-> [const |-> TRUE, storage |-> "none", init |-> 0],
     SQUEAL_TRANSIENT |-> [const |-> TRUE, storage |-> "none", init |-> -1]]

Header(h) ==
    IF h = "Squeal" THEN Squeal_h ELSE Squeal_iOS_h

Decl(h, s) ==
    IF s = "SQUEAL_STATIC" THEN Header(h).SQUEAL_STATIC ELSE Header(h).SQUEAL_TRANSIENT

(***************************************************************************)
(* The cast (squeal_destructor_type)k of an int constant k.  The operand   *)
(* has type int (IntBits bits, two's complement); the conversion to a      *)
(* pointer of w bits keeps the low bits when w <= IntBits and extends      *)
(* according to the signedness of int (sign extension) when w > IntBits.   *)
(***************************************************************************)
IntBits == 32

RECURSIVE TwosComplement(_, _)
TwosComplement(k, n) ==
    IF n = 0 THEN <<>> ELSE <<k % 2>> \o TwosComplement(k \div 2, n - 1)

IntToPtrZeroExtended(k, w) ==
    LET b == TwosComplement(k, IntBits)
    IN  [i \in 1..w |-> IF i <= IntBits THEN b[i] ELSE 0]

IntToPtr(k, w) ==
    LET b == TwosComplement(k, IntBits)
    IN  [i \in 1..w |-> IF i <= IntBits THEN b[i] ELSE b[IntBits]]

ConstantValue(h, s, w) ==
    IntToPtr(Decl(h, s).init, w)

SQUEAL_STATIC ==
    ConstantValue(header, "SQUEAL_STATIC", width)

SQUEAL_TRANSIENT ==
    ConstantValue(header, "SQUEAL_TRANSIENT", width)

Sentinel(s) ==
    IF s = "SQUEAL_STATIC" THEN SQUEAL_STATIC ELSE SQUEAL_TRANSIENT

(***************************************************************************)
(* Reading a bit pattern as an unsigned integer (widths below 31 only).    *)
(***************************************************************************)
RECURSIVE Unsigned(_)
Unsigned(p) ==
    IF p = <<>> THEN 0 ELSE p[1] + 2 * Unsigned(Tail(p))

AllZero(w) == [i \in 1..w |-> 0]
AllOnes(w) == [i \in 1..w |-> 1]

(***************************************************************************)
(* Build: every translation unit that includes the header compiles the two *)
(* file-scope definitions.  Without a storage-class specifier a file-scope *)
(* object has external linkage in (Objective-)C; in (Objective-)C++ a      *)
(* const-qualified one has internal linkage.                               *)
(***************************************************************************)
Linkage(l, d) ==
    IF d.storage = "static" THEN "internal"
    ELSE IF d.storage = "extern" THEN "external"
    ELSE IF l = "objcxx" /\ d.const THEN "internal"
    ELSE "external"

Emitted(u) ==
    {[unit |-> u, sym |-> s, linkage |-> Linkage(lang, Decl(header, s)),
      value |-> Sentinel(s)] : s \in Syms}

Compile ==
    /\ phase = "compile"
    /\ units < MaxUnits
    /\ units' = units + 1
    /\ symtab' = symtab \cup Emitted(units + 1)
    /\ UNCHANGED <<width, header, lang, phase, mem, start, reg>>
    /\ UNCHANGED engineVars

Definitions(s) == {d \in symtab : d.sym = s}

Duplicate ==
    \E d1, d2 \in symtab :
        /\ d1.sym = d2.sym
        /\ d1.unit # d2.unit
        /\ d1.linkage = "external"
        /\ d2.linkage = "external"

Image ==
    [u \in 1..units |->
        [s \in Syms |-> (CHOOSE d \in symtab : d.unit = u /\ d.sym = s).value]]

LinkOk ==
    /\ phase = "compile"
    /\ units >= 1
    /\ ~Duplicate
    /\ phase' = "run"
    /\ mem' = Image
    /\ start' = Image
    /\ UNCHANGED <<width, header, lang, units, symtab, reg>>
    /\ UNCHANGED engineVars

LinkFail ==
    /\ phase = "compile"
    /\ Duplicate
    /\ phase' = "linkerror"
    /\ UNCHANGED <<width, header, lang, units, symtab, mem, start, reg>>
    /\ UNCHANGED engineVars

(***************************************************************************)
(* Run: threads access the constants with no synchronization.  The         *)
(* accesses a program can make of an object are those its declared type    *)
(* permits: a const-qualified lvalue is not modifiable, so it is only read.*)
(***************************************************************************)
Permitted(s) ==
    IF Decl(header, s).const THEN {"load"} ELSE {"load", "store"}

Access(t, u, s) ==
    /\ phase = "run"
    /\ u \in 1..units
    /\ \E a \in Permitted(s) :
         IF a = "load"
         THEN /\ reg' = [reg EXCEPT ![t] = [unit |-> u, sym |-> s, val |-> mem[u][s]]]
              /\ mem' = mem
         ELSE /\ \E v \in {AllZero(width), AllOnes(width)} :
                    mem' = [mem EXCEPT ![u][s] = v]
              /\ reg' = reg
    /\ UNCHANGED <<width, header, lang, phase, units, symtab, start>>
    /\ UNCHANGED engineVars

(***************************************************************************)
(* The consuming side: a binding layer that passes a destructor argument   *)
(* to the native engine's blob/text bind call, and the engine, which       *)
(* recognizes its two sentinels by pointer equality                        *)
(* (https://www.sqlite.org/c3ref/c_static.html).  Buffer 1 is statically   *)
(* allocated; the others are heap buffers the caller may mutate and free.  *)
(***************************************************************************)
MaxBufs == 2
MaxByte == 1
NumFuncs == 2

BufIds == 1..MaxBufs
Bytes == 0..MaxByte
Policies == {"STATIC", "TRANSIENT", "custom"}

EngineStatic(w) == AllZero(w)
EngineTransient(w) == AllOnes(w)

\* Addresses of real destructor functions: a real function never lives at
\* address 0 or at the all-ones address.
RealDestructors(w) ==
    {p \in {IntToPtr(k, w) : k \in 1..NumFuncs} : p # AllZero(w) /\ p # AllOnes(w)}

NoBinding ==
    [state |-> "empty", policy |-> "none", dtor |-> <<>>, buf |-> 0, atBind |-> <<>>,
     mode |-> "none", copy |-> <<>>, willCall |-> FALSE, seen |-> <<>>, stale |-> FALSE]

InitialBufs ==
    [b \in BufIds |-> [static |-> (b = 1), live |-> TRUE, content |-> 0]]

\* The caller has handed the buffer's ownership to the engine.
Owned(b) ==
    binding.state = "bound" /\ binding.policy = "custom" /\ binding.buf = b

\* The destructor argument the binding layer passes for a policy: the value
\* of the bridge's constant as the process holds it, or a real function.
DestructorArgs(policy) ==
    IF policy = "STATIC" THEN {mem[1]["SQUEAL_STATIC"]}
    ELSE IF policy = "TRANSIENT" THEN {mem[1]["SQUEAL_TRANSIENT"]}
    ELSE RealDestructors(width)

\* The engine's bind call.
EngineBind(b, policy, d) ==
    IF d = EngineTransient(width)
    THEN [state |-> "bound", policy |-> policy, dtor |-> d, buf |-> b,
          atBind |-> <<bufs[b].content>>, mode |-> "copy",
          copy |-> <<bufs[b].content>>, willCall |-> FALSE, seen |-> <<>>,
          stale |-> FALSE]
    ELSE [state |-> "bound", policy |-> policy, dtor |-> d, buf |-> b,
          atBind |-> <<bufs[b].content>>, mode |-> "borrow",
          copy |-> <<>>, willCall |-> (d # EngineStatic(width)), seen |-> <<>>,
          stale |-> FALSE]

Bind(b, policy) ==
    /\ phase = "run"
    /\ binding.state # "bound"
    /\ bufs[b].live
    /\ policy = "custom" => ~bufs[b].static
    /\ \E d \in DestructorArgs(policy) : binding' = EngineBind(b, policy, d)
    /\ UNCHANGED <<bufs, called, released>>
    /\ UNCHANGED <<width, header>>
    /\ UNCHANGED bridgeVars

Mutate(b, v) ==
    /\ phase = "run"
    /\ bufs[b].live
    /\ ~bufs[b].static
    /\ ~Owned(b)
    /\ bufs[b].content # v
    /\ bufs' = [bufs EXCEPT ![b].content = v]
    /\ UNCHANGED <<binding, called, released>>
    /\ UNCHANGED <<width, header>>
    /\ UNCHANGED bridgeVars

Free(b) ==
    /\ phase = "run"
    /\ bufs[b].live
    /\ ~bufs[b].static
    /\ ~Owned(b)
    /\ bufs' = [bufs EXCEPT ![b] = [static |-> FALSE, live |-> FALSE, content |-> 0]]
    /\ UNCHANGED <<binding, called, released>>
    /\ UNCHANGED <<width, header>>
    /\ UNCHANGED bridgeVars

\* The caller's buffer no longer holds what it held at the bind call.
Stale ==
    \/ ~bufs[binding.buf].live
    \/ <<bufs[binding.buf].content>> # binding.atBind

\* The query executes and reads the bound value; reading a freed buffer
\* yields any value.  `stale` records whether the source buffer had been
\* freed or mutated by then.
Execute ==
    /\ phase = "run"
    /\ binding.state = "bound"
    /\ \E v \in Bytes :
         /\ IF binding.mode = "copy" THEN <<v>> = binding.copy
            ELSE bufs[binding.buf].live => v = bufs[binding.buf].content
         /\ binding' = [binding EXCEPT !.seen = <<v>>, !.stale = Stale]
    /\ UNCHANGED <<bufs, called, released>>
    /\ UNCHANGED <<width, header>>
    /\ UNCHANGED bridgeVars

\* The engine drops the binding: it invokes a real destructor on the
\* buffer, frees its own copy, or does nothing.
Clear ==
    /\ phase = "run"
    /\ binding.state = "bound"
    /\ binding' = [binding EXCEPT !.state = "cleared"]
    /\ IF binding.willCall
       THEN /\ called' = called \cup {binding.dtor}
            /\ released' = released \cup {binding.buf}
            /\ bufs' = [bufs EXCEPT ![binding.buf].live = FALSE,
                                    ![binding.buf].content = 0]
       ELSE UNCHANGED <<bufs, called, released>>
    /\ UNCHANGED <<width, header>>
    /\ UNCHANGED bridgeVars

Init ==
    /\ width \in Widths
    /\ header \in Headers
    /\ lang \in Langs
    /\ phase = "compile"
    /\ units = 0
    /\ symtab = {}
    /\ mem = <<>>
    /\ start = <<>>
    /\ reg = [t \in Threads |-> NoLoad]
    /\ bufs = InitialBufs
    /\ binding = NoBinding
    /\ called = {}
    /\ released = {}

Next ==
    \/ Compile
    \/ LinkOk
    \/ LinkFail
    \/ \E t \in Threads, u \in 1..MaxUnits, s \in Syms : Access(t, u, s)

Spec == Init /\ [][Next]_vars

(***************************************************************************)
(* The consuming side runs in a process built from one translation unit,   *)
(* at the pointer widths where the cast changes behaviour: one bit (no     *)
(* address but the sentinels exists), the width of int, the first width    *)
(* the cast extends to, and twice the width of int.                        *)
(***************************************************************************)
EngineWidths ==
    {w \in Widths : w \in {1, IntBits, IntBits + 1, 2 * IntBits}}

InitEngine ==
    /\ width \in EngineWidths
    /\ header \in Headers
    /\ lang = "objc"
    /\ phase = "run"
    /\ units = 1
    /\ symtab = Emitted(1)
    /\ mem = [u \in {1} |-> [s \in Syms |-> Sentinel(s)]]
    /\ start = mem
    /\ reg = [t \in Threads |-> NoLoad]
    /\ bufs = InitialBufs
    /\ binding = NoBinding
    /\ called = {}
    /\ released = {}

NextEngine ==
    \/ \E b \in BufIds, policy \in Policies : Bind(b, policy)
    \/ \E b \in BufIds, v \in Bytes : Mutate(b, v)
    \/ \E b \in BufIds : Free(b)
    \/ Execute
    \/ Clear

SpecEngine == InitEngine /\ [][NextEngine]_vars

(***************************************************************************)
(* Properties.                                                             *)
(***************************************************************************)
Other(h) == IF h = "Squeal" THEN "Squeal-iOS" ELSE "Squeal"

Loaded(t, s) == reg[t] # NoLoad /\ reg[t].sym = s

\* C1: at every pointer width, and built against either header,
\* SQUEAL_TRANSIENT has all its bits set: read as an unsigned integer it is
\* 2^width - 1, which is -1 reduced modulo 2^width.  The same holds of every
\* definition a unit emits, of the object in the process and of every value
\* a thread loads from it.
C1_TransientAllOnes ==
    LET p == SQUEAL_TRANSIENT
    IN  /\ DOMAIN p = 1..width
        /\ \A i \in 1..width : p[i] = 1
        /\ width < 31 => /\ Unsigned(p) = 2^width - 1
                         /\ Unsigned(p) = (-1) % (2^width)
        /\ \A d \in Definitions("SQUEAL_TRANSIENT") : d.value = p
        /\ phase = "run" => \A u \in 1..units : mem[u]["SQUEAL_TRANSIENT"] = p
        /\ \A t \in Threads : Loaded(t, "SQUEAL_TRANSIENT") => reg[t].val = p

C1_Witness ==
    /\ width > IntBits
    /\ header = "Squeal-iOS"
    /\ phase = "run"
    /\ \E t \in Threads :
         /\ Loaded(t, "SQUEAL_TRANSIENT")
         /\ \A i \in 1..width : reg[t].val[i] = 1

\* C2: at every pointer width, and built against either header,
\* SQUEAL_STATIC has no bit set: read as an unsigned integer it is 0, the
\* null pointer.  The same holds of every emitted definition, of the object
\* in the process and of every value a thread loads from it.
C2_StaticZero ==
    LET p == SQUEAL_STATIC
    IN  /\ DOMAIN p = 1..width
        /\ \A i \in 1..width : p[i] = 0
        /\ width < 31 => Unsigned(p) = 0
        /\ \A d \in Definitions("SQUEAL_STATIC") : d.value = p
        /\ phase = "run" => \A u \in 1..units : mem[u]["SQUEAL_STATIC"] = p
        /\ \A t \in Threads : Loaded(t, "SQUEAL_STATIC") => reg[t].val = p

C2_Witness ==
    /\ width > IntBits
    /\ header = "Squeal"
    /\ phase = "run"
    /\ \E t \in Threads :
         /\ Loaded(t, "SQUEAL_STATIC")
         /\ \A i \in 1..width : reg[t].val[i] = 0

\* C3: SQUEAL_STATIC and SQUEAL_TRANSIENT differ at every pointer width
\* w >= 1 and in every reachable state: as constants, as the definitions of
\* one unit, as objects of the process, and as values loaded by threads.
C3_NeverEqual ==
    /\ SQUEAL_STATIC # SQUEAL_TRANSIENT
    /\ \A d1 \in Definitions("SQUEAL_STATIC"), d2 \in Definitions("SQUEAL_TRANSIENT") :
         d1.value # d2.value
    /\ phase = "run" =>
         \A u1, u2 \in 1..units : mem[u1]["SQUEAL_STATIC"] # mem[u2]["SQUEAL_TRANSIENT"]
    /\ \A t1, t2 \in Threads :
         Loaded(t1, "SQUEAL_STATIC") /\ Loaded(t2, "SQUEAL_TRANSIENT")
            => reg[t1].val # reg[t2].val

C3_Witness ==
    /\ width = 1
    /\ phase = "run"
    /\ \E t1, t2 \in Threads :
         /\ Loaded(t1, "SQUEAL_STATIC")
         /\ Loaded(t2, "SQUEAL_TRANSIENT")
         /\ reg[t1].val # reg[t2].val

\* C4: under any interleaving of unsynchronized accesses by the threads,
\* every load of a constant returns the value the constant had at program
\* start, and no step of the running process changes either constant.
C4_LoadsSeeStart ==
    \A t \in Threads :
        reg[t] # NoLoad => reg[t].val = start[reg[t].unit][reg[t].sym]

C4_NoWrite ==
    phase = "run" => (mem' = mem /\ start' = start)

C4_ReadsAreStable ==
    [](C4_LoadsSeeStart /\ (phase = "run" => mem = start)) /\ [][C4_NoWrite]_vars

C4_Witness ==
    /\ phase = "run"
    /\ units > 1
    /\ \A t \in Threads : reg[t] # NoLoad
    /\ \E t1, t2 \in Threads :
         /\ t1 # t2
         /\ reg[t1].sym = reg[t2].sym
         /\ reg[t1].unit # reg[t2].unit
         /\ reg[t1].val = reg[t2].val

\* C5: in a process built from any number of translation units that include
\* the header, each of the two symbols has exactly one definition: once the
\* build has linked, a process exists and every symbol is defined once.
C5_DefinedOnce ==
    phase # "compile" =>
        /\ phase = "run"
        /\ \A s \in Syms : Cardinality(Definitions(s)) = 1

\* C9: the two headers are interchangeable: they give squeal_destructor_type
\* the same signature, and at every pointer width the values the program is
\* built with and observes are the values the other header gives.
C9_HeadersInterchangeable ==
    /\ Squeal_h.typedef = Squeal_iOS_h.typedef
    /\ \A s \in Syms :
         LET q == ConstantValue(Other(header), s, width)
         IN  /\ Sentinel(s) = q
             /\ \A d \in Definitions(s) : d.value = q
             /\ phase = "run" => \A u \in 1..units : mem[u][s] = q
             /\ \A t \in Threads : Loaded(t, s) => reg[t].val = q

C9_Witness ==
    /\ phase = "run"
    /\ header = "Squeal-iOS"
    /\ width = IntBits
    /\ \E t1, t2 \in Threads :
         /\ Loaded(t1, "SQUEAL_STATIC")
         /\ Loaded(t2, "SQUEAL_TRANSIENT")
         /\ reg[t1].val = ConstantValue("Squeal", "SQUEAL_STATIC", width)
         /\ reg[t2].val = ConstantValue("Squeal", "SQUEAL_TRANSIENT", width)

\* C6: a value bound with the TRANSIENT sentinel is observed, when the
\* query executes, as the buffer's contents at the time of the bind call,
\* even if the source buffer was freed or mutated in between.
C6_TransientCopies ==
    (binding.policy = "TRANSIENT" /\ binding.seen # <<>>)
        => binding.seen = binding.atBind

C6_Witness ==
    /\ binding.policy = "TRANSIENT"
    /\ binding.seen # <<>>
    /\ binding.stale
    /\ ~bufs[binding.buf].live
    /\ binding.seen = binding.atBind

C8_StaticBorrows ==
    /\ (binding.policy = "STATIC" /\ bufs[binding.buf].static) =>
          /\ binding.mode = "borrow"
          /\ binding.copy = <<>>
          /\ ~binding.willCall
    /\ \A b \in BufIds : bufs[b].static => (b \notin released /\ bufs[b].live)

C8_Witness ==
    /\ binding.state = "cleared"
    /\ binding.policy = "STATIC"
    /\ bufs[binding.buf].static
    /\ binding.mode = "borrow"
    /\ binding.seen = binding.atBind
    /\ released # {}

====
